---- MODULE Spec2Model ----
(***************************************************************************)
(* A model of dariah_topics/visualization.py: the document-topic matrix    *)
(* builders (create_doc_topic, Visualization.make_heatmap), the save       *)
(* steps of the Visualization class, the per-document bar chart            *)
(* (plot_doc_topics) and the Mallet word-weights adapter                   *)
(* (read_mallet_word_weights, get_wordlewords, plot_wordle_from_mallet).   *)
(*                                                                         *)
(* Conventions.  A Python list is a TLA+ sequence (1-based); a numpy       *)
(* array or a DataFrame axis is a function on 0..n-1, so that indices are  *)
(* the source's.  A (topic_id, weight) tuple is <<topic_id, weight>>.      *)
(* Weights are integers (tenths).  A string is a sequence of tokens; the   *)
(* path separator "/" and the blank " " are always tokens of their own.    *)
(* A Python object is a record whose DOMAIN is the set of attributes it    *)
(* has.  A call ends in `ret`: exc is "none" when it returned normally     *)
(* and the name of the exception that reached the caller otherwise.        *)
(***************************************************************************)
EXTENDS Integers, Sequences, FiniteSets, TLC

VARIABLES
    inp,    \* the arguments of the call being modelled
    obj,    \* the Visualization object (its attributes)
    fs,     \* the file system: directories, files, read-only directories
    hist,   \* the build steps (make_*) called on the object so far, each
            \* with how it ended
    ret     \* how the last call ended, with its locals of interest

vars == <<inp, obj, fs, hist, ret>>

----------------------------------------------------------------------------
(* Bounds of the model *)

MaxDocs == 2
MaxTopics == 2
MaxPairs == 2
MaxHeat == 22
MaxBarTopics == 2
MaxBarDocs == 2
MaxRows == 3
MaxK == 2
MaxTopicNr == 999
MaxVocab == 3
MaxWords == 4

Weights == {3, 7}

----------------------------------------------------------------------------
(* Generic helpers *)

Min(a, b) == IF a < b THEN a ELSE b

Range(s) == {s[k] : k \in DOMAIN s}

NoRet == [op |-> "none", exc |-> "none"]

EmptyFs == [dirs |-> {}, files |-> {}, readonly |-> {}]

----------------------------------------------------------------------------
(* The external topic model (gensim): num_topics, __getitem__, show_topic *)

\* model.__getitem__(doc): the topic distribution of a document, a list of
\* (topic_id, topic_prob) tuples.  The trained model is external: each document
\* of the corpus carries the distribution the model answers for it.
ModelGetItem(model, doc) == doc

\* model.show_topic(i, topn=3): the three dominant terms of topic i, as
\* (word, prob) tuples.
ShowTopic(model, i) == [k \in 1..3 |-> << <<"term", i, k>>, 10 - k >>]

RECURSIVE JoinBlank(_)
\* " ".join(terms)
JoinBlank(terms) ==
    IF terms = <<>> THEN <<>>
    ELSE IF Len(terms) = 1 THEN <<terms[1]>>
    ELSE <<terms[1], " ">> \o JoinBlank(Tail(terms))

\* The label-construction pass of both builders.
TopicLabels(model) ==
    [i \in 0..(model.num_topics - 1) |->
        JoinBlank([k \in 1..3 |-> ShowTopic(model, i)[k][1]])]

----------------------------------------------------------------------------
(* The dense fill shared by create_doc_topic and make_heatmap *)

\* np.zeros((no_of_docs, no_of_topics))
NpZeros(no_of_docs, no_of_topics) ==
    [i \in 0..(no_of_docs - 1) |-> [t \in 0..(no_of_topics - 1) |-> 0]]

\* numpy accepts an index t of an axis of length n when -n <= t < n ...
InBounds(t, n) == t \in (0 - n)..(n - 1)

\* ... and a negative index counts from the end.
NpIndex(t, n) == IF t < 0 THEN t + n ELSE t

\* zip(corpus, range(no_of_docs)): pairs up to the shorter of the two.
Zip(corpus, no_of_docs) ==
    [k \in 1..Min(Len(corpus), no_of_docs) |-> <<corpus[k], k - 1>>]

\* A wrong-cell store: the weight lands in the next column.
StoreCell_Shifted(m, i, t, w, n) ==
    [m EXCEPT ![i][(NpIndex(t, n) + 1) % n] = w]

\* First-write-wins: a cell already set keeps its weight.
StoreCell_FirstWins(m, i, t, w, n) ==
    IF m[i][NpIndex(t, n)] # 0 THEN m
    ELSE [m EXCEPT ![i][NpIndex(t, n)] = w]

\* doc_topic[i][topic[0]] = topic[1]
StoreCell(m, i, t, w, n) ==
    [m EXCEPT ![i][NpIndex(t, n)] = w]

RECURSIVE FillPairs(_, _, _, _)
\* for topic in topic_dist: doc_topic[i][topic[0]] = topic[1]
FillPairs(m, i, topic_dist, n) ==
    IF topic_dist = <<>> THEN [exc |-> "none", m |-> m]
    ELSE LET topic == Head(topic_dist) IN
         IF ~InBounds(topic[1], n) THEN [exc |-> "IndexError", m |-> m]
         ELSE FillPairs(StoreCell(m, i, topic[1], topic[2], n),
                        i, Tail(topic_dist), n)

RECURSIVE FillDocs(_, _, _, _)
\* for doc, i in zip(corpus, range(no_of_docs)): ...
FillDocs(m, zipped, model, n) ==
    IF zipped = <<>> THEN [exc |-> "none", m |-> m]
    ELSE LET doc == Head(zipped)[1]
             i == Head(zipped)[2]
             r == FillPairs(m, i, ModelGetItem(model, doc), n)
         IN IF r.exc # "none" THEN r
            ELSE FillDocs(r.m, Tail(zipped), model, n)

\* The first statements of both builders: sizes, zero matrix, fill loop.
FillDocTopic(corpus, model, doc_labels) ==
    LET no_of_topics == model.num_topics
        no_of_docs == Len(doc_labels)
    IN FillDocs(NpZeros(no_of_docs, no_of_topics),
                Zip(corpus, no_of_docs), model, no_of_topics)

\* pd.DataFrame(doc_topic, index=doc_labels, columns=topic_labels).transpose():
\* topics are the rows (index), documents the columns.
TransposedFrame(m, doc_labels, topic_labels) ==
    [index |-> topic_labels,
     columns |-> [d \in 0..(Len(doc_labels) - 1) |-> doc_labels[d + 1]],
     values |-> [t \in DOMAIN topic_labels |->
                    [d \in 0..(Len(doc_labels) - 1) |-> m[d][t]]]]

\* create_doc_topic(corpus, model, doc_labels)
create_doc_topic(corpus, model, doc_labels) ==
    LET r == FillDocTopic(corpus, model, doc_labels) IN
    IF r.exc # "none"
    THEN [op |-> "create_doc_topic", exc |-> r.exc, doc_topic |-> r.m]
    ELSE [op |-> "create_doc_topic", exc |-> "none", doc_topic |-> r.m,
          value |-> TransposedFrame(r.m, doc_labels, TopicLabels(model))]

----------------------------------------------------------------------------
(* Paths and the file system (os.path, os.makedirs, open for writing) *)

RECURSIVE Normalize(_)
\* A path without its trailing separators.
Normalize(p) ==
    IF p # <<>> /\ p[Len(p)] = "/" THEN Normalize(SubSeq(p, 1, Len(p) - 1))
    ELSE p

\* The positions of the separators of p.
Seps(p) == {k \in DOMAIN p : p[k] = "/"}

LastSep(p) == CHOOSE k \in Seps(p) : \A j \in Seps(p) : j <= k

\* os.path.dirname / os.path.basename
Dirname(p) == IF Seps(p) = {} THEN <<>> ELSE SubSeq(p, 1, LastSep(p) - 1)

Basename(p) == IF Seps(p) = {} THEN p ELSE SubSeq(p, LastSep(p) + 1, Len(p))

\* os.path.join(a, b), b relative
PathJoin(a, b) ==
    IF a = <<>> THEN b
    ELSE IF a[Len(a)] = "/" THEN a \o b
    ELSE a \o <<"/">> \o b

\* os.path.exists(p): the empty path does not exist.
PathExists(f, p) ==
    /\ p # <<>>
    /\ Normalize(p) \in f.dirs \cup f.files

\* The directories os.makedirs(p) goes through, outermost first.
DirChain(p) ==
    LET q == Normalize(p)
        cuts == {k \in 1..Len(q) : k = Len(q) \/ q[k + 1] = "/"}
        n == Cardinality(cuts)
        nth(j) == CHOOSE k \in cuts : Cardinality({c \in cuts : c <= k}) = j
    IN [j \in 1..n |-> SubSeq(q, 1, nth(j))]

RECURSIVE MkdirChain(_, _)
\* os.mkdir of each missing directory of the chain in turn.
MkdirChain(f, chain) ==
    IF chain = <<>> THEN [exc |-> "none", fs |-> f]
    ELSE LET d == Head(chain) IN
         IF d \in f.dirs THEN MkdirChain(f, Tail(chain))
         ELSE IF d \in f.files \/ Dirname(d) \in f.files
              THEN [exc |-> "NotADirectoryError", fs |-> f]
         ELSE IF Dirname(d) \in f.readonly
              THEN [exc |-> "PermissionError", fs |-> f]
         ELSE MkdirChain([f EXCEPT !.dirs = @ \cup {d}], Tail(chain))

\* os.makedirs(p)
Makedirs(f, p) ==
    IF p = <<>> THEN [exc |-> "FileNotFoundError", fs |-> f]
    ELSE IF Normalize(p) \in f.dirs \cup f.files
         THEN [exc |-> "FileExistsError", fs |-> f]
    ELSE MkdirChain(f, DirChain(p))

\* if not os.path.exists(p): os.makedirs(p)
EnsureDir(f, p) ==
    IF ~PathExists(f, p) THEN Makedirs(f, p) ELSE [exc |-> "none", fs |-> f]

\* Opening file p for writing, as savefig and the pyLDAvis writers do.
WriteFile(f, p) ==
    IF Basename(p) = <<>> THEN [exc |-> "IsADirectoryError", fs |-> f]
    ELSE IF Dirname(p) # <<>> /\ Normalize(Dirname(p)) \notin f.dirs
         THEN [exc |-> "FileNotFoundError", fs |-> f]
    ELSE IF p \in f.dirs THEN [exc |-> "IsADirectoryError", fs |-> f]
    ELSE IF Normalize(Dirname(p)) \in f.readonly
         THEN [exc |-> "PermissionError", fs |-> f]
    ELSE [exc |-> "none", fs |-> [f EXCEPT !.files = @ \cup {p}]]

\* The image formats matplotlib's Agg backend writes; any other extension is
\* refused with a ValueError before a file is opened.
FigFormats == {"png", "pdf"}

\* Figure.savefig(p) / plt.savefig(p): the format is the last token of p.
Savefig(f, p) ==
    IF p = <<>> \/ p[Len(p)] \notin FigFormats
    THEN [exc |-> "ValueError", fs |-> f]
    ELSE WriteFile(f, p)

----------------------------------------------------------------------------
(* class Visualization *)

HasAttr(o, a) == a \in DOMAIN o

SetAttr(o, a, v) == (a :> v) @@ o

\* Visualization.__init__
VisualizationInit(lda_model, corpus, dictionary, doc_labels, interactive) ==
    IF interactive
    THEN [corpus |-> corpus, model |-> lda_model, dictionary |-> dictionary]
    ELSE [corpus |-> corpus, model |-> lda_model, doc_labels |-> doc_labels]

\* if no_of_docs > 20 or no_of_topics > 20
FigThreshold == 20

\* The figure step of make_heatmap: the enlarged figure is created and
\* dropped; only the else branch draws and sets self.heatmap_vis.
HeatmapFigure(o, m, no_of_docs, no_of_topics) ==
    IF no_of_docs > FigThreshold \/ no_of_topics > FigThreshold
    THEN [fig |-> [figsize |-> <<20, 20>>], obj |-> o]
    ELSE LET fig == [figsize |-> <<>>,
                     pcolor |-> m,
                     yticklabels |-> o.doc_labels,
                     xticklabels |-> TopicLabels(o.model)]
         IN [fig |-> fig, obj |-> SetAttr(o, "heatmap_vis", fig)]

\* Visualization.make_heatmap(self)
make_heatmap(o) ==
    IF ~HasAttr(o, "doc_labels")
    THEN [ret |-> [op |-> "make_heatmap", exc |-> "AttributeError"], obj |-> o]
    ELSE
    LET r == FillDocTopic(o.corpus, o.model, o.doc_labels) IN
    IF r.exc # "none"
    THEN [ret |-> [op |-> "make_heatmap", exc |-> r.exc, doc_topic |-> r.m],
          obj |-> o]
    ELSE LET h == HeatmapFigure(o, r.m, Len(o.doc_labels), o.model.num_topics)
         IN [ret |-> [op |-> "make_heatmap", exc |-> "none",
                      doc_topic |-> r.m, fig |-> h.fig],
             obj |-> h.obj]

\* The try body of save_heatmap: the exception raised in it, if any.
SaveHeatmapBody(o, f, path, filename, ext) ==
    LET d == EnsureDir(f, path) IN
    IF d.exc # "none" THEN d
    ELSE IF ~HasAttr(o, "heatmap_vis")
         THEN [exc |-> "AttributeError", fs |-> d.fs]
    ELSE Savefig(d.fs, PathJoin(path, filename \o <<".", ext>>))

\* A handler that passes on the missing-prerequisite error too.
SaveHandler_SwallowAttr(inner) ==
    IF inner \in {"AttributeError", "FileNotFoundError"} THEN "none" ELSE inner

\* A handler that swallows every OS error.
SaveHandler_SwallowOSError(inner) ==
    IF inner \in {"FileNotFoundError", "PermissionError", "FileExistsError",
                  "NotADirectoryError", "IsADirectoryError"}
    THEN "none" ELSE inner

\* except AttributeError: log, raise / except FileNotFoundError: pass
\* The exception that reaches the caller, given the one raised in the body.
SaveHandler(inner) ==
    IF inner = "AttributeError" THEN "AttributeError"
    ELSE IF inner = "FileNotFoundError" THEN "none"
    ELSE inner

\* Visualization.save_heatmap(self, path, filename, ext)
save_heatmap(o, f, path, filename, ext) ==
    LET b == SaveHeatmapBody(o, f, path, filename, ext) IN
    [ret |-> [op |-> "save_heatmap", exc |-> SaveHandler(b.exc),
              inner |-> b.exc, path |-> path,
              target |-> PathJoin(path, filename \o <<".", ext>>),
              wrote |-> b.fs.files \ f.files],
     fs |-> b.fs]

\* import pyLDAvis.gensim is commented out: the name is not bound.
pyLDAvis_imported == FALSE

\* Visualization.make_interactive(self)
make_interactive(o) ==
    IF ~pyLDAvis_imported
    THEN [ret |-> [op |-> "make_interactive", exc |-> "NameError"], obj |-> o]
    ELSE IF ~HasAttr(o, "dictionary")
    THEN [ret |-> [op |-> "make_interactive", exc |-> "AttributeError"],
          obj |-> o]
    ELSE [ret |-> [op |-> "make_interactive", exc |-> "none"],
          obj |-> SetAttr(o, "interactive_vis",
                          [model |-> o.model, corpus |-> o.corpus,
                           dictionary |-> o.dictionary])]

\* The try body of save_interactive.
SaveInteractiveBody(o, f, path) ==
    LET d == EnsureDir(f, path) IN
    IF d.exc # "none" THEN d
    ELSE IF ~pyLDAvis_imported THEN [exc |-> "NameError", fs |-> d.fs]
    ELSE IF ~HasAttr(o, "interactive_vis")
         THEN [exc |-> "AttributeError", fs |-> d.fs]
    ELSE LET h == WriteFile(d.fs,
                    PathJoin(path, <<"corpus_interactive", ".", "html">>))
         IN IF h.exc # "none" THEN h
            ELSE WriteFile(h.fs,
                    PathJoin(path, <<"corpus_interactive", ".", "json">>))

\* Visualization.save_interactive(self, path, filename)
save_interactive(o, f, path, filename) ==
    LET b == SaveInteractiveBody(o, f, path) IN
    [ret |-> [op |-> "save_interactive", exc |-> SaveHandler(b.exc),
              inner |-> b.exc, path |-> path,
              wrote |-> b.fs.files \ f.files],
     fs |-> b.fs]

----------------------------------------------------------------------------
(* plot_doc_topics: the per-document bar chart *)

\* A doc-topic frame has index (topic labels) on 0..nt-1, columns (document
\* labels) on 0..nd-1 and values[t][d].  A Series is a sequence of
\* <<label, value>> entries.

\* list(doc_topic)[document_index]: Python list indexing of the column labels.
ColumnLabelAt(frame, document_index) ==
    LET nd == Cardinality(DOMAIN frame.columns) IN
    IF document_index \in 0..(nd - 1) THEN frame.columns[document_index]
    ELSE frame.columns[document_index + nd]

\* doc_topic[label]: selection by label; the result has every column that
\* carries the label (a Series when there is one, a DataFrame otherwise).
ColumnsLabelled(frame, label) ==
    {d \in DOMAIN frame.columns : frame.columns[d] = label}

\* The Series of column d: one entry per topic, in index order.
SeriesOf(frame, d) ==
    [k \in 1..Cardinality(DOMAIN frame.index) |->
        <<frame.index[k - 1], frame.values[k - 1][d]>>]

RECURSIVE DropZeros(_)
\* data[data != 0]
DropZeros(data) ==
    IF data = <<>> THEN <<>>
    ELSE IF Head(data)[2] # 0 THEN <<Head(data)>> \o DropZeros(Tail(data))
    ELSE DropZeros(Tail(data))

RECURSIVE InsertByValue(_, _)
\* Insertion behind every entry that is not greater (a stable insertion).
InsertByValue(e, sorted) ==
    IF sorted = <<>> THEN <<e>>
    ELSE IF Head(sorted)[2] <= e[2]
         THEN <<Head(sorted)>> \o InsertByValue(e, Tail(sorted))
    ELSE <<e>> \o sorted

RECURSIVE SortValuesFrom(_, _)
SortValuesFrom(data, sorted) ==
    IF data = <<>> THEN sorted
    ELSE SortValuesFrom(Tail(data), InsertByValue(Head(data), sorted))

\* data.sort_values(): ascending by value.
SortValues(data) == SortValuesFrom(data, <<>>)

\* plot_doc_topics(doc_topic, document_index)
plot_doc_topics(frame, document_index) ==
    LET nd == Cardinality(DOMAIN frame.columns) IN
    IF document_index \notin (0 - nd)..(nd - 1)
    THEN [op |-> "plot_doc_topics", exc |-> "IndexError", doc_topic |-> frame]
    ELSE
    LET label == ColumnLabelAt(frame, document_index)
        cols == ColumnsLabelled(frame, label)
    IN IF Cardinality(cols) # 1
       \* a DataFrame: sort_values() without `by` is a TypeError
       THEN [op |-> "plot_doc_topics", exc |-> "TypeError", doc_topic |-> frame]
       ELSE LET d == CHOOSE c \in cols : TRUE
                data == SortValues(DropZeros(SeriesOf(frame, d)))
            IN [op |-> "plot_doc_topics", exc |-> "none", doc_topic |-> frame,
                values |-> [k \in DOMAIN data |-> data[k][2]],
                labels |-> [k \in DOMAIN data |-> data[k][1]],
                title |-> label]

----------------------------------------------------------------------------
(* The Mallet word-weights adapter *)

\* A word-weights file is a sequence of rows <<topic_id, word, weight>>
\* (columns 0, 1, 2 of the table read).

\* Row a is placed before row b by sort(columns=[0,2], ascending=[True,False]).
RowBefore_AscendingWeight(a, b) ==
    a[1] < b[1] \/ (a[1] = b[1] /\ a[3] < b[3])

RowBefore(a, b) ==
    a[1] < b[1] \/ (a[1] = b[1] /\ a[3] > b[3])

RECURSIVE InsertRow(_, _)
\* Insertion behind every row that is not to come after it (stable).
InsertRow(r, sorted) ==
    IF sorted = <<>> THEN <<r>>
    ELSE IF RowBefore(r, Head(sorted)) THEN <<r>> \o sorted
    ELSE <<Head(sorted)>> \o InsertRow(r, Tail(sorted))

RECURSIVE SortRowsFrom(_, _)
SortRowsFrom(rows, sorted) ==
    IF rows = <<>> THEN sorted
    ELSE SortRowsFrom(Tail(rows), InsertRow(Head(rows), sorted))

\* read_mallet_word_weights(word_weights_file): the table sorted by topic id
\* ascending, then weight descending, ready for grouping by topic id.  An
\* empty file has no columns to parse.
read_mallet_word_weights(file) ==
    IF file = <<>>
    THEN [exc |-> "EmptyDataError"]
    ELSE [exc |-> "none", value |-> SortRowsFrom(file, <<>>)]

RECURSIVE RowsOfTopic(_, _)
RowsOfTopic(rows, topic_nr) ==
    IF rows = <<>> THEN <<>>
    ELSE IF Head(rows)[1] = topic_nr
         THEN <<Head(rows)>> \o RowsOfTopic(Tail(rows), topic_nr)
    ELSE RowsOfTopic(Tail(rows), topic_nr)

\* A lookup that answers a missing key with the empty group.
GetGroup_EmptyOnMissing(grouped, topic_nr) ==
    [exc |-> "none", value |-> RowsOfTopic(grouped, topic_nr)]

\* word_scores_grouped.get_group(topic_nr)
GetGroup(grouped, topic_nr) ==
    IF \A k \in DOMAIN grouped : grouped[k][1] # topic_nr
    THEN [exc |-> "KeyError"]
    ELSE [exc |-> "none", value |-> RowsOfTopic(grouped, topic_nr)]

\* rows.iloc[0:k]
IlocUpTo(rows, k) ==
    IF k >= 0 THEN SubSeq(rows, 1, Min(k, Len(rows)))
    ELSE SubSeq(rows, 1, Len(rows) + k)

RECURSIVE JoinWords(_)
\* wordlewords = wordlewords + (word + " ") for each word
JoinWords(words) ==
    IF words = <<>> THEN <<>>
    ELSE <<Head(words), " ">> \o JoinWords(Tail(words))

\* get_wordlewords(word_scores_grouped, number_of_top_words, topic_nr)
get_wordlewords(grouped, number_of_top_words, topic_nr) ==
    LET g == GetGroup(grouped, topic_nr) IN
    IF g.exc # "none" THEN [op |-> "get_wordlewords", exc |-> g.exc]
    ELSE LET top == IlocUpTo(g.value, number_of_top_words)
             topic_words == [k \in DOMAIN top |-> top[k][2]]
         IN [op |-> "get_wordlewords", exc |-> "none",
             value |-> JoinWords(topic_words)]

\* get_wordlewords(read_mallet_word_weights(file), k, topic_nr)
WordleWordsOfFile(file, number_of_top_words, topic_nr) ==
    LET g == read_mallet_word_weights(file) IN
    IF g.exc # "none" THEN [op |-> "read_mallet_word_weights", exc |-> g.exc]
    ELSE get_wordlewords(g.value, number_of_top_words, topic_nr)

DigitTokens == <<"0", "1", "2", "3", "4", "5", "6", "7", "8", "9">>

RECURSIVE Digits(_)
\* str(n) for n >= 0
Digits(n) ==
    IF n < 10 THEN <<DigitTokens[n + 1]>>
    ELSE Digits(n \div 10) \o <<DigitTokens[(n % 10) + 1]>>

RECURSIVE ZeroPad(_, _)
ZeroPad(s, width) == IF Len(s) >= width THEN s ELSE ZeroPad(<<"0">> \o s, width)

\* "{:03d}".format(n)
Format03d(n) ==
    IF n < 0 THEN <<"-">> \o ZeroPad(Digits(0 - n), 2) ELSE ZeroPad(Digits(n), 3)

\* "wordle_tp" + "{:03d}".format(topic_nr) + ".png"
FigureFilename(topic_nr) == <<"wordle_tp">> \o Format03d(topic_nr) \o <<".", "png">>

\* outfolder + figure_filename: plain string concatenation.
WordleTarget(outfolder, figure_filename) == outfolder \o figure_filename

\* plot_wordle_from_mallet(word_weights_file, topic_nr, number_of_top_words,
\*                         outfolder, dpi)
plot_wordle_from_mallet(f, file, topic_nr, number_of_top_words, outfolder) ==
    LET t == WordleWordsOfFile(file, number_of_top_words, topic_nr)
        done(exc, f2) == [ret |-> [op |-> "plot_wordle_from_mallet",
                                   exc |-> exc, wrote |-> f2.files \ f.files],
                          fs |-> f2]
    IN IF t.exc # "none" THEN done(t.exc, f)
       \* WordCloud.generate refuses a text without words
       ELSE IF t.value = <<>> THEN done("ValueError", f)
       ELSE LET d == EnsureDir(f, outfolder) IN
            IF d.exc # "none" THEN done(d.exc, d.fs)
            ELSE LET w == Savefig(d.fs, WordleTarget(outfolder,
                                            FigureFilename(topic_nr)))
                 IN done(w.exc, w.fs)

----------------------------------------------------------------------------
(* Inputs of the matrix builders *)

\* The topic ids a distribution may name for a model of nt topics: those of
\* the model, one below and one above.
TopicIds(nt) == (0 - 1)..nt

TopicPairs(nt) == {<<t, w>> : t \in TopicIds(nt), w \in Weights}

RECURSIVE AssignmentsOfLen(_, _)
AssignmentsOfLen(n, nt) ==
    IF n = 0 THEN {<<>>}
    ELSE {<<p>> \o a : p \in TopicPairs(nt), a \in AssignmentsOfLen(n - 1, nt)}

RECURSIVE CorporaWith(_, _, _)
\* The corpora of nd documents with at most `budget` pairs in all.
CorporaWith(nd, budget, nt) ==
    IF nd = 0 THEN {<<>>}
    ELSE UNION {{<<a>> \o rest :
                    rest \in CorporaWith(nd - 1, budget - Len(a), nt)}
                : a \in UNION {AssignmentsOfLen(k, nt) : k \in 0..budget}}

DocLabels(n) == [k \in 1..n |-> <<"doc", k>>]

\* The heatmap of the object life cycle: one topic per document, sizes
\* around the figure threshold.
HeatSizes == {1, FigThreshold - 1, FigThreshold, FigThreshold + 1, MaxHeat}

HeatCorpus(nd, nt) == [k \in 1..nd |-> << <<(k - 1) % nt, 3>> >>]

SavePaths == {<<>>, <<"o">>, <<"o", "/">>, <<"r", "/", "o">>}

SaveFilenames == {<<"heatmap">>, <<"s", "/", "heatmap">>}

SaveExts == {"png", "xyz"}

----------------------------------------------------------------------------
(* Specifications *)

InitDocTopic ==
    \E nt \in 0..MaxTopics, nl \in 0..MaxDocs, nd \in 0..MaxDocs :
      \E corpus \in CorporaWith(nd, MaxPairs, nt) :
        /\ inp = [corpus |-> corpus, model |-> [num_topics |-> nt],
                  doc_labels |-> DocLabels(nl)]
        /\ obj = VisualizationInit([num_topics |-> nt], corpus, "dictionary",
                                   DocLabels(nl), FALSE)
        /\ fs = EmptyFs
        /\ hist = {}
        /\ ret = NoRet

InitVis ==
    \E nd \in HeatSizes, nt \in HeatSizes, interactive \in BOOLEAN :
        /\ inp = [corpus |-> HeatCorpus(nd, nt), model |-> [num_topics |-> nt],
                  doc_labels |-> DocLabels(nd)]
        /\ obj = VisualizationInit([num_topics |-> nt], HeatCorpus(nd, nt),
                                   "dictionary", DocLabels(nd), interactive)
        /\ fs = [dirs |-> {<<"r">>}, files |-> {}, readonly |-> {<<"r">>}]
        /\ hist = {}
        /\ ret = NoRet

CreateDocTopic ==
    /\ ret' = create_doc_topic(inp.corpus, inp.model, inp.doc_labels)
    /\ UNCHANGED <<inp, obj, fs, hist>>

MakeHeatmap ==
    LET r == make_heatmap(obj) IN
    /\ ret' = r.ret
    /\ obj' = r.obj
    /\ hist' = hist \cup {<<"make_heatmap", r.ret.exc>>}
    /\ UNCHANGED <<inp, fs>>

SaveHeatmap ==
    \E path \in SavePaths, filename \in SaveFilenames, ext \in SaveExts :
        LET r == save_heatmap(obj, fs, path, filename, ext) IN
        /\ ret' = r.ret
        /\ fs' = r.fs
        /\ UNCHANGED <<inp, obj, hist>>

MakeInteractive ==
    LET r == make_interactive(obj) IN
    /\ ret' = r.ret
    /\ obj' = r.obj
    /\ hist' = hist \cup {<<"make_interactive", r.ret.exc>>}
    /\ UNCHANGED <<inp, fs>>

SaveInteractive ==
    \E path \in SavePaths :
        LET r == save_interactive(obj, fs, path, <<"corpus_interactive">>) IN
        /\ ret' = r.ret
        /\ fs' = r.fs
        /\ UNCHANGED <<inp, obj, hist>>

NextDocTopic == CreateDocTopic \/ MakeHeatmap

SpecDocTopic == InitDocTopic /\ [][NextDocTopic]_vars

NextVis == MakeHeatmap \/ SaveHeatmap \/ MakeInteractive \/ SaveInteractive

SpecVis == InitVis /\ [][NextVis]_vars

----------------------------------------------------------------------------
(* plot_doc_topics on every small frame (SpecBar) *)

BarValues == {0, 3, 7}

BarDocLabels == {"a", "b"}

\* The frames of nt topics and nd documents.
BarFrames(nt, nd) ==
    {[index |-> [t \in 0..(nt - 1) |-> <<"topic", t>>],
      columns |-> cols, values |-> vals] :
        cols \in [0..(nd - 1) -> BarDocLabels],
        vals \in [0..(nt - 1) -> [0..(nd - 1) -> BarValues]]}

InitBar ==
    \E nt \in 1..MaxBarTopics, nd \in 1..MaxBarDocs :
      \E frame \in BarFrames(nt, nd) :
        \E document_index \in (0 - MaxBarDocs - 1)..MaxBarDocs :
          /\ inp = [doc_topic |-> frame, document_index |-> document_index]
          /\ obj = [corpus |-> <<>>]
          /\ fs = EmptyFs
          /\ hist = {}
          /\ ret = NoRet

PlotDocTopics ==
    /\ ret' = plot_doc_topics(inp.doc_topic, inp.document_index)
    /\ UNCHANGED <<inp, obj, fs, hist>>

NextBar == PlotDocTopics

SpecBar == InitBar /\ [][NextBar]_vars

----------------------------------------------------------------------------
(* The Mallet adapter on every small word-weights file (SpecMallet) *)

MalletTopics == {0, 1}

MalletWords == {"cat", "dog", "fish"}

MalletWeights == {2, 4}

RECURSIVE MalletFilesOfLen(_)
\* The files of n rows, no (topic, word) twice.
MalletFilesOfLen(n) ==
    IF n = 0 THEN {<<>>}
    ELSE {Append(f, <<t, w, x>>) :
            f \in MalletFilesOfLen(n - 1),
            t \in MalletTopics, w \in MalletWords, x \in MalletWeights}
         \ {f \in [1..n -> MalletTopics \X MalletWords \X MalletWeights] :
              \E j \in 1..(n - 1) : f[j][1] = f[n][1] /\ f[j][2] = f[n][2]}

InitMallet ==
    \E n \in 0..MaxRows :
      \E file \in MalletFilesOfLen(n) :
        \E k \in 0..MaxK, topic_nr \in 0..2 :
            /\ inp = [word_weights_file |-> file, number_of_top_words |-> k,
                      topic_nr |-> topic_nr]
            /\ obj = [corpus |-> <<>>]
            /\ fs = EmptyFs
            /\ hist = {}
            /\ ret = NoRet

GetWordleWords ==
    /\ ret' = WordleWordsOfFile(inp.word_weights_file, inp.number_of_top_words,
                                inp.topic_nr)
    /\ UNCHANGED <<inp, obj, fs, hist>>

NextMallet == GetWordleWords

SpecMallet == InitMallet /\ [][NextMallet]_vars

----------------------------------------------------------------------------
(* plot_wordle_from_mallet (SpecWordle) *)

WordleFolders == {<<>>, <<"o">>, <<"o", "/">>, <<"o", "/", "w">>, <<"r", "/", "o">>}

InitWordle ==
    \E topic_nr \in 0..MaxTopicNr, k \in 0..1, outfolder \in WordleFolders,
       present \in BOOLEAN :
        /\ inp = [word_weights_file |-> << <<topic_nr, "cat", 4>>,
                                          <<topic_nr, "dog", 2>> >>,
                  number_of_top_words |-> k, topic_nr |-> topic_nr,
                  outfolder |-> outfolder]
        /\ obj = [corpus |-> <<>>]
        /\ fs = [dirs |-> {<<"r">>} \cup
                          (IF present /\ outfolder \in {<<"o">>, <<"o", "/">>}
                           THEN {<<"o">>} ELSE {}),
                 files |-> {}, readonly |-> {<<"r">>}]
        /\ hist = {}
        /\ ret = NoRet

PlotWordleFromMallet ==
    LET r == plot_wordle_from_mallet(fs, inp.word_weights_file, inp.topic_nr,
                                     inp.number_of_top_words, inp.outfolder)
    IN /\ ret' = r.ret
       /\ fs' = r.fs
       /\ UNCHANGED <<inp, obj, hist>>

NextWordle == PlotWordleFromMallet

SpecWordle == InitWordle /\ [][NextWordle]_vars

----------------------------------------------------------------------------
(* Properties of the matrix builders (SpecDocTopic) *)

NumTopics == inp.model.num_topics

BuilderRan == ret.op \in {"create_doc_topic", "make_heatmap"}

\* Every topic id of every distribution is in 0..num_topics-1.
IdsInRange ==
    \A k \in DOMAIN inp.corpus : \A j \in DOMAIN inp.corpus[k] :
        inp.corpus[k][j][1] \in 0..(NumTopics - 1)

WellFormed == Len(inp.corpus) = Len(inp.doc_labels) /\ IdsInRange

\* The positions, in document i's distribution, of the pairs with topic id t.
PairsWith(i, t) == {j \in DOMAIN inp.corpus[i + 1] : inp.corpus[i + 1][j][1] = t}

HasDuplicate ==
    \E k \in DOMAIN inp.corpus : \E j1, j2 \in DOMAIN inp.corpus[k] :
        j1 < j2 /\ inp.corpus[k][j1][1] = inp.corpus[k][j2][1]

\* C1: for well-formed inputs (as many documents as labels, every topic id in
\* 0..num_topics-1) the matrix filled by create_doc_topic and by make_heatmap
\* has shape (documents, topics); a cell whose document has no pair with that
\* topic id is 0, and a cell whose document has the pair (t, w) holds w.  The
\* frame create_doc_topic returns is the transpose of that matrix, and the
\* heatmap drawn is that matrix.
C1_WellFormedFill ==
    (BuilderRan /\ WellFormed) =>
        /\ ret.exc = "none"
        /\ DOMAIN ret.doc_topic = 0..(Len(inp.doc_labels) - 1)
        /\ \A i \in DOMAIN ret.doc_topic :
              /\ DOMAIN ret.doc_topic[i] = 0..(NumTopics - 1)
              /\ \A t \in 0..(NumTopics - 1) :
                    /\ PairsWith(i, t) = {} => ret.doc_topic[i][t] = 0
                    /\ \A j \in PairsWith(i, t) :
                          PairsWith(i, t) = {j} =>
                              ret.doc_topic[i][t] = inp.corpus[i + 1][j][2]
        /\ ret.op = "create_doc_topic" =>
              \A t \in 0..(NumTopics - 1) : \A d \in DOMAIN ret.doc_topic :
                  ret.value.values[t][d] = ret.doc_topic[d][t]
        /\ (ret.op = "make_heatmap" /\ HasAttr(obj, "heatmap_vis")) =>
              obj.heatmap_vis.pcolor = ret.doc_topic

\* A well-formed two-document corpus built by both builders, with a cell set
\* and a cell left at zero.
C1_Witness ==
    /\ ret.op = "create_doc_topic"
    /\ <<"make_heatmap", "none">> \in hist
    /\ WellFormed
    /\ Len(inp.corpus) = 2
    /\ NumTopics = 2
    /\ ret.exc = "none"
    /\ ret.doc_topic[0][1] = 7
    /\ ret.doc_topic[1][0] = 0
    /\ ret.value.values[1][0] = 7

\* C2: with mismatched inputs (the corpus and the labels differ in length, or
\* a topic id is outside 0..num_topics-1) create_doc_topic fails with an error.
C2_MismatchFails ==
    (ret.op = "create_doc_topic" /\ ~WellFormed) => ret.exc # "none"

\* C3: when a distribution repeats a topic id, create_doc_topic does not fail
\* and every cell holds the weight of the last pair of its own document with
\* its own topic id (0 when there is none).
C3_LastWriteWins ==
    (ret.op = "create_doc_topic" /\ IdsInRange /\ HasDuplicate) =>
        /\ ret.exc = "none"
        /\ \A i \in DOMAIN ret.doc_topic : \A t \in 0..(NumTopics - 1) :
              IF i + 1 \in DOMAIN inp.corpus /\ PairsWith(i, t) # {}
              THEN \E j \in PairsWith(i, t) :
                      /\ \A j2 \in PairsWith(i, t) : j2 <= j
                      /\ ret.doc_topic[i][t] = inp.corpus[i + 1][j][2]
              ELSE ret.doc_topic[i][t] = 0

\* A document that names topic 0 twice, with weights 3 then 7.
C3_Witness ==
    /\ ret.op = "create_doc_topic"
    /\ ret.exc = "none"
    /\ IdsInRange
    /\ Len(inp.corpus) >= 1
    /\ Len(inp.doc_labels) >= 1
    /\ inp.corpus[1] = << <<0, 3>>, <<0, 7>> >>
    /\ ret.doc_topic[0][0] = 7

----------------------------------------------------------------------------
(* Properties of the Visualization object (SpecVis) *)

Called(op) == \E h \in hist : h[1] = op

SaveRan == ret.op \in {"save_heatmap", "save_interactive"}

\* C7, as stated: on an object on which make_heatmap was never called,
\* save_heatmap raises an error and writes no file; likewise save_interactive
\* before make_interactive.
C7_SaveBeforeMakeRaises ==
    /\ (ret.op = "save_heatmap" /\ ~Called("make_heatmap")) =>
          (ret.exc # "none" /\ ret.wrote = {})
    /\ (ret.op = "save_interactive" /\ ~Called("make_interactive")) =>
          (ret.exc # "none" /\ ret.wrote = {})

\* C7, amended: a save step before its make step writes no file; it raises
\* the missing-prerequisite error (save_heatmap: AttributeError;
\* save_interactive: an error) whenever the output directory exists after the
\* directory step, and it returns normally only when the directory step
\* raised a file-not-found error, which is swallowed.
C7_SaveBeforeMake ==
    /\ (ret.op = "save_heatmap" /\ ~Called("make_heatmap")) =>
          /\ ret.wrote = {}
          /\ PathExists(fs, ret.path) => ret.exc = "AttributeError"
          /\ ret.exc = "none" =>
                (ret.inner = "FileNotFoundError" /\ ~PathExists(fs, ret.path))
    /\ (ret.op = "save_interactive" /\ ~Called("make_interactive")) =>
          /\ ret.wrote = {}
          /\ PathExists(fs, ret.path) => ret.exc # "none"
          /\ ret.exc = "none" =>
                (ret.inner = "FileNotFoundError" /\ ~PathExists(fs, ret.path))

\* save_heatmap on a fresh object, into a directory it could create, raised
\* the missing-prerequisite error.
C7_Witness ==
    /\ ret.op = "save_heatmap"
    /\ ~Called("make_heatmap")
    /\ ret.path = <<"o">>
    /\ PathExists(fs, ret.path)
    /\ ret.exc = "AttributeError"
    /\ ret.wrote = {}

\* C8: a file-not-found error raised inside save_heatmap or save_interactive
\* (by the directory step or by the write) does not reach the caller: the
\* call returns normally; an error of any other kind raised inside reaches
\* the caller unchanged.
C8_FileNotFoundSwallowed ==
    SaveRan =>
        /\ ret.inner = "FileNotFoundError" => ret.exc = "none"
        /\ ret.inner # "FileNotFoundError" => ret.exc = ret.inner

\* The write of a drawn heatmap into a missing sub-directory raised
\* file-not-found and the call returned normally, writing nothing.
C8_Witness ==
    /\ ret.op = "save_heatmap"
    /\ HasAttr(obj, "heatmap_vis")
    /\ PathExists(fs, ret.path)
    /\ ret.inner = "FileNotFoundError"
    /\ ret.exc = "none"
    /\ ret.wrote = {}

\* C10: once make_heatmap has returned normally the object holds the figure
\* with the matrix drawn in it, enlarged to (20,20) exactly when there are
\* more than 20 documents or topics, and a following save_heatmap does not
\* raise the missing-prerequisite error.
C10_HeatmapHeld ==
    /\ (ret.op = "make_heatmap" /\ ret.exc = "none") =>
          /\ HasAttr(obj, "heatmap_vis")
          /\ obj.heatmap_vis.pcolor = ret.doc_topic
          /\ obj.heatmap_vis.figsize = <<20, 20>> <=>
                (Len(inp.doc_labels) > FigThreshold \/ NumTopics > FigThreshold)
    /\ (ret.op = "save_heatmap" /\ <<"make_heatmap", "none">> \in hist) =>
          ret.exc # "AttributeError"

----------------------------------------------------------------------------
(* Property of the bar chart (SpecBar) *)

BarDocs == Cardinality(DOMAIN inp.doc_topic.columns)

\* The column position a valid document index stands for.
BarColumn ==
    IF inp.document_index >= 0 THEN inp.document_index
    ELSE inp.document_index + BarDocs

\* C4: for every frame and every valid document index, plot_doc_topics plots
\* exactly the topics of that document's column whose value is not 0, each
\* with its own value, in ascending order of value, and leaves the frame as
\* it was.
C4_BarData ==
    (ret.op = "plot_doc_topics"
        /\ inp.document_index \in (0 - BarDocs)..(BarDocs - 1)) =>
        /\ ret.exc = "none"
        /\ Len(ret.values) = Len(ret.labels)
        /\ \A t \in DOMAIN inp.doc_topic.index :
              LET v == inp.doc_topic.values[t][BarColumn]
                  at == {k \in DOMAIN ret.labels :
                            ret.labels[k] = inp.doc_topic.index[t]}
              IN IF v = 0 THEN at = {}
                 ELSE Cardinality(at) = 1 /\ \A k \in at : ret.values[k] = v
        /\ \A k \in DOMAIN ret.labels :
              \E t \in DOMAIN inp.doc_topic.index :
                  ret.labels[k] = inp.doc_topic.index[t]
        /\ \A k, l \in DOMAIN ret.values : k < l => ret.values[k] <= ret.values[l]
        /\ ret.doc_topic = inp.doc_topic

----------------------------------------------------------------------------
(* Properties of the Mallet adapter (SpecMallet, SpecWordle) *)

\* The rows of the requested topic in the file.
TopicRows ==
    {j \in DOMAIN inp.word_weights_file :
        inp.word_weights_file[j][1] = inp.topic_nr}

\* The weight the file gives a word of the requested topic.
WeightOfWord(w) ==
    inp.word_weights_file[CHOOSE j \in TopicRows :
                              inp.word_weights_file[j][2] = w][3]

\* The words of the returned string: each is followed by one blank.
ReturnedWords == [k \in 1..(Len(ret.value) \div 2) |-> ret.value[2 * k - 1]]

\* C5: for a topic id present in the file and K >= 0, the string returned by
\* get_wordlewords(read_mallet_word_weights(file), K, t) holds exactly
\* min(K, n_t) words, all of them words of topic t, in descending order of
\* weight, and no word of topic t left out is heavier than a word returned.
C5_TopWords ==
    (ret.op = "get_wordlewords" /\ TopicRows # {}) =>
        /\ ret.exc = "none"
        /\ Len(ret.value) =
              2 * Min(inp.number_of_top_words, Cardinality(TopicRows))
        /\ \A k \in DOMAIN ReturnedWords :
              /\ ret.value[2 * k] = " "
              /\ \E j \in TopicRows :
                    inp.word_weights_file[j][2] = ReturnedWords[k]
        /\ \A k, l \in DOMAIN ReturnedWords :
              k < l => /\ ReturnedWords[k] # ReturnedWords[l]
                       /\ WeightOfWord(ReturnedWords[k])
                             >= WeightOfWord(ReturnedWords[l])
        /\ \A j \in TopicRows : \A k \in DOMAIN ReturnedWords :
              inp.word_weights_file[j][2] \notin Range(ReturnedWords) =>
                  inp.word_weights_file[j][3] <= WeightOfWord(ReturnedWords[k])

\* Three rows of the topic, the lightest first in the file, the top two asked.
C5_Witness ==
    /\ ret.op = "get_wordlewords"
    /\ ret.exc = "none"
    /\ inp.number_of_top_words = 2
    /\ Cardinality(TopicRows) = 3
    /\ inp.word_weights_file[1][3] = 2
    /\ inp.word_weights_file[2][3] = 4
    /\ inp.word_weights_file[3][3] = 4
    /\ Len(ReturnedWords) = 2
    /\ ReturnedWords[1] = inp.word_weights_file[2][2]

\* C6: get_wordlewords with a topic id that has no rows in the file fails
\* with a KeyError and returns nothing.
C6_MissingTopicKeyError ==
    (ret.op = "get_wordlewords" /\ TopicRows = {}) =>
        /\ ret.exc = "KeyError"
        /\ "value" \notin DOMAIN ret

\* A file with rows of topic 1 only, asked for topic 0 and two words.
C6_Witness ==
    /\ ret.op = "get_wordlewords"
    /\ ret.exc = "KeyError"
    /\ inp.topic_nr = 0
    /\ inp.number_of_top_words = 2
    /\ Len(inp.word_weights_file) = 2
    /\ \A j \in DOMAIN inp.word_weights_file : inp.word_weights_file[j][1] = 1

\* C9: for every outfolder, with or without a trailing separator, and every
\* topic number 0..999, a plot_wordle_from_mallet that returns has created
\* outfolder and written wordle_tp<3 digits>.png inside it.
C9_WordleInsideOutfolder ==
    (ret.op = "plot_wordle_from_mallet" /\ ret.exc = "none") =>
        /\ PathExists(fs, inp.outfolder)
        /\ ret.wrote =
              {PathJoin(inp.outfolder,
                        <<"wordle_tp",
                          DigitTokens[(inp.topic_nr \div 100) + 1],
                          DigitTokens[((inp.topic_nr \div 10) % 10) + 1],
                          DigitTokens[(inp.topic_nr % 10) + 1],
                          ".", "png">>)}

----------------------------------------------------------------------------
(* plot_wordle_from_lda *)

\* A topic distribution and a numpy array are functions on 0..n-1; vocab is
\* a Python list (1-based sequence).

RECURSIVE InsertIndex(_, _, _)
\* Insertion of index i behind every index whose weight is not greater.
InsertIndex(i, sorted, dist) ==
    IF sorted = <<>> THEN <<i>>
    ELSE IF dist[Head(sorted)] <= dist[i]
         THEN <<Head(sorted)>> \o InsertIndex(i, Tail(sorted), dist)
    ELSE <<i>> \o sorted

RECURSIVE ArgsortFrom(_, _, _)
ArgsortFrom(i, sorted, dist) ==
    IF i \notin DOMAIN dist THEN sorted
    ELSE ArgsortFrom(i + 1, InsertIndex(i, sorted, dist), dist)

\* np.argsort(topic_dist): the indices in ascending order of weight, as a
\* function on 0..n-1.
Argsort(dist) ==
    LET order == ArgsortFrom(0, <<>>, dist)
    IN [k \in 0..(Len(order) - 1) |-> order[k + 1]]

\* a[:-words:-1]: from the last element backwards, down to and without the
\* element at index -words; the result is a sequence.
ReversedTail(a, words) ==
    LET n == Cardinality(DOMAIN a)
        stop == IF words = 0 THEN 0
                ELSE IF words > n THEN 0 - 1
                ELSE n - words
        len == IF n - 1 - stop > 0 THEN n - 1 - stop ELSE 0
    IN [k \in 1..len |-> a[n - k]]

RECURSIVE UpdateAll(_, _, _)
\* for token, value in zip(tokens, values): token_value.update({token: value})
UpdateAll(token_value, tokens, values) ==
    IF tokens = <<>> \/ values = <<>> THEN token_value
    ELSE UpdateAll((Head(tokens) :> Head(values)) @@ token_value,
                   Tail(tokens), Tail(values))

\* plot_wordle_from_lda(model, vocab, topic_nr, words, height, width): the
\* token_value mapping handed to WordCloud.fit_words.
plot_wordle_from_lda(model, vocab, topic_nr, words) ==
    IF ~InBounds(topic_nr, Len(model.topic_word_))
    THEN [op |-> "plot_wordle_from_lda", exc |-> "IndexError"]
    ELSE
    LET topic_dist == model.topic_word_[NpIndex(topic_nr,
                                               Len(model.topic_word_)) + 1]
        order == Argsort(topic_dist)
        \* np.array(vocab)[np.argsort(topic_dist)]
        sorted_vocab == [k \in DOMAIN order |-> vocab[order[k] + 1]]
        topic_words == ReversedTail(sorted_vocab, words)
        values == ReversedTail(topic_dist, words)
    IN [op |-> "plot_wordle_from_lda", exc |-> "none",
        topic_words |-> topic_words,
        token_value |-> UpdateAll(<<>>, topic_words, values)]

----------------------------------------------------------------------------
(* plot_wordle_from_lda on every small topic (SpecLda) *)

VocabTerms == <<"a", "b", "c", "d", "e">>

LdaWeights == {1, 2, 5}

InitLda ==
    \E n \in 1..MaxVocab :
      \E dist \in [0..(n - 1) -> LdaWeights] :
        \E words \in 0..MaxWords, topic_nr \in 0..1 :
            /\ inp = [model |-> [topic_word_ |-> <<dist>>],
                      vocab |-> SubSeq(VocabTerms, 1, n),
                      topic_nr |-> topic_nr, words |-> words]
            /\ obj = [corpus |-> <<>>]
            /\ fs = EmptyFs
            /\ hist = {}
            /\ ret = NoRet

PlotWordleFromLda ==
    /\ ret' = plot_wordle_from_lda(inp.model, inp.vocab, inp.topic_nr,
                                   inp.words)
    /\ UNCHANGED <<inp, obj, fs, hist>>

NextLda == PlotWordleFromLda

SpecLda == InitLda /\ [][NextLda]_vars

----------------------------------------------------------------------------
(* Property of plot_wordle_from_lda (SpecLda) *)

\* The weights of the requested topic.
LdaDist == inp.model.topic_word_[inp.topic_nr + 1]

\* The position in the vocabulary of a token.
VocabIndex(token) == CHOOSE i \in DOMAIN LdaDist : inp.vocab[i + 1] = token

\* C11: for a topic distribution and a vocabulary of equal length and
\* words >= 2, every token of the mapping handed to the word cloud is among
\* the words-1 highest-weight terms of the topic, and its value is that same
\* term's weight in model.topic_word_[topic_nr].
C11_TokenValues ==
    (ret.op = "plot_wordle_from_lda" /\ ret.exc = "none" /\ inp.words >= 2) =>
        \A token \in DOMAIN ret.token_value :
            /\ token \in Range(inp.vocab)
            /\ Cardinality({i \in DOMAIN LdaDist :
                              LdaDist[i] > LdaDist[VocabIndex(token)]})
                  < inp.words - 1
            /\ ret.token_value[token] = LdaDist[VocabIndex(token)]

====
